---- MODULE Spec2Model ----
(***************************************************************************)
(* A model of the GIF container parser of src/src/gif.rs.  The parser is   *)
(* built from nom "complete" combinators over byte slices.  A slice is a   *)
(* sequence of bytes (0..255); every parser maps a slice to a result:      *)
(* Ok(rest, out) with rest a suffix of the slice, or Err(kind).            *)
(* The fixed-shape parsers are operators; the two many1 repetitions        *)
(* (blocks of a Gif, sub-blocks of a block) are stepped by actions.        *)
(***************************************************************************)
EXTENDS Integers, Sequences, FiniteSets, TLC

VARIABLES
    input,      \* the slice handed to the entry point under test
    size,       \* the size argument of ColorTable::parse (0 when unused)
    pc,         \* position of the parse
    header,     \* Some(the Header) once Header::parse succeeded, else None
    i,          \* many1(Block::parse): the slice the next block is parsed from
    blocks,     \* many1(Block::parse): the blocks accumulated so far
    snt,        \* Block::parse: the run matched by is_a(",!")
    body,       \* Block::parse: the run matched by take_while1(not in ",!;")
    after,      \* Block::parse: the slice that follows body
    head,       \* Image/Extension: the decoded part before the sub-blocks
    sub_i,      \* many1(SubBlock::parse): the slice the next sub-block is parsed from
    subs,       \* many1(SubBlock::parse): the sub-blocks accumulated so far
    blockRes,   \* result of the most recent Block::parse
    result      \* result of the entry point (NoResult until it returns)

vars == <<input, size, pc, header, i, blocks, snt, body, after, head,
          sub_i, subs, blockRes, result>>

----------------------------------------------------------------------------
(* Bytes the grammar names. *)

COMMA == 44

BANG == 33

SEMI == 59

NUL == 0

\* count(take(size), 256): the repetition count of ColorTable::parse
TableCount == 256

GIF87a == <<71, 73, 70, 56, 55, 97>>

GIF89a == <<71, 73, 70, 56, 57, 97>>

----------------------------------------------------------------------------
(* Results and slices. *)

Ok(rest, out) == [ok |-> TRUE, rest |-> rest, out |-> out, kind |-> "Ok"]

Err(kind) == [ok |-> FALSE, rest |-> <<>>, out |-> <<>>, kind |-> kind]

\* the outcome of unreachable!() / expect(): the thread panics
Panic == [ok |-> FALSE, rest |-> <<>>, out |-> <<>>, kind |-> "panic"]

NoResult == [ok |-> FALSE, rest |-> <<>>, out |-> <<>>, kind |-> "none"]

None == <<>>

Some(x) == <<x>>

\* a `let`: F applied to the value of v, which is computed once
Bind(v, F(_)) == CHOOSE y \in {F(x) : x \in {v}} : TRUE

Drop(s, n) == SubSeq(s, n + 1, Len(s))

Prefix(s, n) == SubSeq(s, 1, n)

\* the length of the longest prefix of s whose bytes all satisfy "in set" = keep
RunLen(s, set, keep) ==
    LET stop == {k \in 1..Len(s) : (s[k] \in set) # keep}
    IN  IF stop = {} THEN Len(s)
        ELSE (CHOOSE k \in stop : \A j \in stop : k <= j) - 1

----------------------------------------------------------------------------
(* nom::bytes::complete primitives. *)

Tag(t, s) ==
    IF Len(s) >= Len(t) /\ Prefix(s, Len(t)) = t
    THEN Ok(Drop(s, Len(t)), t)
    ELSE Err("Tag")

Take(n, s) ==
    IF Len(s) >= n THEN Ok(Drop(s, n), Prefix(s, n)) ELSE Err("Eof")

\* is_a(set): the longest non-empty run of bytes in set
IsA(set, s) ==
    LET n == RunLen(s, set, TRUE)
    IN  IF n = 0 THEN Err("IsA") ELSE Ok(Drop(s, n), Prefix(s, n))

\* is_not(set): the longest non-empty run of bytes not in set
IsNot(set, s) ==
    LET n == RunLen(s, set, FALSE)
    IN  IF n = 0 THEN Err("IsNot") ELSE Ok(Drop(s, n), Prefix(s, n))

\* take_while1(|b| !set.contains(b))
TakeWhile1Not(set, s) ==
    LET n == RunLen(s, set, FALSE)
    IN  IF n = 0 THEN Err("TakeWhile1") ELSE Ok(Drop(s, n), Prefix(s, n))

\* u16::from_le_bytes(bytes.try_into().expect(..)): bytes must hold 2 bytes
le_int_from_bytes(b) ==
    IF Len(b) = 2 THEN (b[1] + 256 * b[2]) % 65536 ELSE -1

----------------------------------------------------------------------------
(* Version::parse *)

VersionTags == <<GIF87a, GIF89a>>

\* mutant: only the first alternative is tried
AltTagsFirstOnly(tags, s) == Tag(tags[1], s)

\* alt((tag(a), tag(b))): the first tag that matches
AltTags(tags, s) ==
    LET hit == {k \in 1..Len(tags) : Tag(tags[k], s).ok}
    IN  IF hit = {} THEN Err("Tag")
        ELSE Tag(tags[CHOOSE k \in hit : \A j \in hit : k <= j], s)

VersionParse(s) ==
    Bind(AltTags(VersionTags, s), LAMBDA r :
        IF ~r.ok THEN r
        ELSE IF r.out = GIF87a THEN Ok(r.rest, "Gif87a")
        ELSE IF r.out = GIF89a THEN Ok(r.rest, "Gif89a")
        ELSE Panic)

----------------------------------------------------------------------------
(* ColorTable::parse and color_table_spec *)

\* count(take(sz), n): n successive take(sz); the k-th one reads bytes
\* (k-1)*sz+1 .. k*sz, and the first one short of bytes fails with Eof
CountTake(s, sz, n) ==
    Bind(s, LAMBDA b :
        IF \A k \in 1..n : Len(b) >= k * sz
        THEN Ok(Drop(b, n * sz), [k \in 1..n |-> SubSeq(b, (k - 1) * sz + 1, k * sz)])
        ELSE Err("Eof"))

ColorTableParse(s, sz) ==
    Bind(CountTake(s, sz, TableCount), LAMBDA r :
        IF r.ok THEN Ok(r.rest, [colors |-> r.out]) ELSE r)

\* Some(size) => ColorTable::parse(s, size).map(|(r, ct)| (r, Some(ct)))?
\* None       => (rest, None)
OptionalTable(spec, s, rest) ==
    IF spec = None THEN Ok(rest, None)
    ELSE Bind(ColorTableParse(s, spec[1]), LAMBDA c :
            IF c.ok THEN Ok(c.rest, Some(c.out)) ELSE c)

Bit7(byte) == (byte \div 128) % 2

Low3(byte) == byte % 8

color_table_spec(byte) ==
    IF Bit7(byte) = 1 THEN Some(Low3(byte) * 255 + 1) ELSE None

----------------------------------------------------------------------------
(* tuple((take(w1), take(w2), ...)): successive takes; field k starts     *)
(* where field k-1 ended, and a field short of bytes fails with Eof        *)

RECURSIVE SumTo(_, _)
SumTo(widths, k) == IF k = 0 THEN 0 ELSE widths[k] + SumTo(widths, k - 1)

TupleTake(widths, s) ==
    IF Len(s) >= SumTo(widths, Len(widths))
    THEN Ok(Drop(s, SumTo(widths, Len(widths))),
            [k \in 1..Len(widths) |->
                SubSeq(s, SumTo(widths, k - 1) + 1, SumTo(widths, k))])
    ELSE Err("Eof")

----------------------------------------------------------------------------
(* LogicalScreenDescriptor::parse *)

LogicalScreenDescriptorParse(s) ==
    Bind(TupleTake(<<2, 2, 1, 1, 1>>, s), LAMBDA t :
        IF ~t.ok THEN t
        ELSE
        LET w   == t.out[1]
            h   == t.out[2]
            gct == t.out[3]
            bg  == t.out[4]
            px  == t.out[5]
        IN  Bind(OptionalTable(color_table_spec(gct[1]), t.rest, t.rest), LAMBDA ct :
                IF ~ct.ok THEN ct
                ELSE IF le_int_from_bytes(w) < 0 \/ le_int_from_bytes(h) < 0 THEN Panic
                ELSE Ok(ct.rest,
                        [width |-> le_int_from_bytes(w),
                         height |-> le_int_from_bytes(h),
                         global_color_table |-> ct.out,
                         bg_color |-> bg[1],
                         pixel_aspect_ratio |-> px[1]])))

----------------------------------------------------------------------------
(* ImageDescriptor::parse: the local color table is parsed from `s`, the   *)
(* slice the descriptor itself started at (gif.rs line 123).               *)

ImageDescriptorParse(s) ==
    Bind(TupleTake(<<2, 2, 2, 2, 1>>, s), LAMBDA t :
        IF ~t.ok THEN t
        ELSE
        LET x   == t.out[1]
            y   == t.out[2]
            w   == t.out[3]
            h   == t.out[4]
            lct == t.out[5]
        IN  Bind(OptionalTable(color_table_spec(lct[1]), s, t.rest), LAMBDA ct :
                IF ~ct.ok THEN ct
                ELSE IF \E b \in {x, y, w, h} : le_int_from_bytes(b) < 0 THEN Panic
                ELSE Ok(ct.rest,
                        [position |-> <<le_int_from_bytes(x), le_int_from_bytes(y)>>,
                         width |-> le_int_from_bytes(w),
                         height |-> le_int_from_bytes(h),
                         local_color_table |-> ct.out])))

----------------------------------------------------------------------------
(* Header::parse: pair(Version::parse, LogicalScreenDescriptor::parse) *)

HeaderParse(s) ==
    Bind(VersionParse(s), LAMBDA v :
        IF ~v.ok THEN v
        ELSE Bind(LogicalScreenDescriptorParse(v.rest), LAMBDA d :
                IF ~d.ok THEN d
                ELSE Ok(d.rest, [version |-> v.out, screen_descriptor |-> d.out])))

----------------------------------------------------------------------------
(* SubBlock::parse: terminated(is_not("\0"), tag("\0")) *)

\* mutant: an empty run without terminator is accepted
SubBlockParseEmpty(s) ==
    LET d == IsNot({NUL}, s)
        z == IF d.ok THEN Tag(<<NUL>>, d.rest) ELSE d
    IN  IF z.ok THEN Ok(z.rest, [data |-> d.out]) ELSE Ok(s, [data |-> <<>>])

\* mutant: the terminating null is kept in the data
SubBlockParseKeepsNul(s) ==
    LET d == IsNot({NUL}, s)
        z == IF d.ok THEN Tag(<<NUL>>, d.rest) ELSE d
    IN  IF z.ok THEN Ok(z.rest, [data |-> Append(d.out, NUL)]) ELSE z

SubBlockParse(s) ==
    LET d == IsNot({NUL}, s)
    IN  IF ~d.ok THEN d
        ELSE LET z == Tag(<<NUL>>, d.rest)
             IN  IF ~z.ok THEN z ELSE Ok(z.rest, [data |-> d.out])

\* impl From<u8> for ExtensionType
ExtensionTypeFrom(byte) == "Unknown"

----------------------------------------------------------------------------
(* Block::parse, stepped: map_res(pair(is_a(",!"), take_while1(..)), f)    *)

Sentinels == {COMMA, BANG}

Delimiters == {COMMA, BANG, SEMI}

\* map_res turns a failure of the closure into Err::Error(MapRes)
MapResErr(r) == IF r.kind = "panic" THEN Panic ELSE Err("MapRes")

\* the Block value built from the decoded head and the sub-blocks
MkBlock(hd, data) ==
    IF hd.kind = "Image"
    THEN [kind |-> "Image",
          image_descriptor |-> hd.image_descriptor,
          image_data |-> [bit_width |-> hd.byte, data |-> data]]
    ELSE [kind |-> "Extension",
          ext_type |-> ExtensionTypeFrom(hd.byte),
          data |-> data]

NoHead == [kind |-> "none", image_descriptor |-> None, byte |-> 0]

\* pair(is_a(",!"), take_while1(|b| !",!;".contains(&b)))(i)
BlockSplit ==
    /\ pc = "block"
    /\ \E s \in {IsA(Sentinels, i)} :
       \E b \in {IF s.ok THEN TakeWhile1Not(Delimiters, s.rest) ELSE s} :
           IF b.ok
           THEN /\ snt' = s.out
                /\ body' = b.out
                /\ after' = b.rest
                /\ pc' = "inner"
                /\ UNCHANGED blockRes
           ELSE /\ blockRes' = b
                /\ pc' = "block_ret"
                /\ UNCHANGED <<snt, body, after>>
    /\ UNCHANGED <<input, size, header, i, blocks, head, sub_i, subs, result>>

\* the closure of map_res: match snt[0]; then the part of Image::parse /
\* Extension::parse that precedes many1(SubBlock::parse)
InnerHead ==
    /\ pc = "inner"
    /\ \E d \in {IF snt[1] = COMMA THEN ImageDescriptorParse(body)
                  ELSE IF snt[1] = BANG THEN Ok(body, None)
                  ELSE Panic} :
       \E t \in {IF d.ok THEN Take(1, d.rest) ELSE d} :
           IF t.ok
           THEN /\ head' = [kind |-> IF snt[1] = COMMA THEN "Image" ELSE "Extension",
                            image_descriptor |-> d.out,
                            byte |-> t.out[1]]
                /\ sub_i' = t.rest
                /\ subs' = <<>>
                /\ pc' = "sub"
                /\ UNCHANGED blockRes
           ELSE /\ blockRes' = MapResErr(t)
                /\ pc' = "block_ret"
                /\ UNCHANGED <<head, sub_i, subs>>
    /\ UNCHANGED <<input, size, header, i, blocks, snt, body, after, result>>

\* one iteration of many1(SubBlock::parse) over the block body; when it
\* ends, the block is built and the rest of the body (sub_i) is dropped
SubBlockStep ==
    /\ pc = "sub"
    /\ \E r \in {SubBlockParse(sub_i)} :
           IF r.ok /\ (subs = <<>> \/ Len(r.rest) # Len(sub_i))
           THEN /\ subs' = Append(subs, r.out)
                /\ sub_i' = r.rest
                /\ UNCHANGED <<pc, blockRes>>
           ELSE /\ blockRes' = IF r.ok \/ subs = <<>>
                               THEN MapResErr(r)
                               ELSE Ok(after, MkBlock(head, subs))
                /\ pc' = "block_ret"
                /\ UNCHANGED <<subs, sub_i>>
    /\ UNCHANGED <<input, size, header, i, blocks, snt, body, after, head, result>>

----------------------------------------------------------------------------
(* Gif::parse, stepped:                                                    *)
(* terminated(pair(Header::parse, many1(Block::parse)), tag(";"))          *)

HeaderStep ==
    /\ pc = "header"
    /\ \E r \in {HeaderParse(input)} :
           IF r.ok
           THEN /\ header' = Some(r.out)
                /\ i' = r.rest
                /\ pc' = "block"
                /\ UNCHANGED result
           ELSE /\ result' = r
                /\ pc' = "done"
                /\ UNCHANGED <<header, i>>
    /\ UNCHANGED <<input, size, blocks, snt, body, after, head, sub_i, subs, blockRes>>

\* many1 on the return of Block::parse: accumulate and go on, or stop at
\* the first Err::Error (an error of its own when nothing was accumulated)
Many1Block ==
    /\ pc = "block_ret"
    /\ IF blockRes.ok /\ (blocks = <<>> \/ Len(blockRes.rest) # Len(i))
       THEN /\ blocks' = Append(blocks, blockRes.out)
            /\ i' = blockRes.rest
            /\ pc' = "block"
            /\ UNCHANGED result
       ELSE IF blockRes.ok \/ blocks = <<>> \/ blockRes.kind = "panic"
       THEN /\ result' = IF blockRes.ok THEN Err("Many1") ELSE blockRes
            /\ pc' = "done"
            /\ UNCHANGED <<blocks, i>>
       ELSE /\ pc' = "trailer"
            /\ UNCHANGED <<blocks, i, result>>
    /\ UNCHANGED <<input, size, header, snt, body, after, head, sub_i, subs, blockRes>>

\* mutant: the trailer is optional
TrailerOptional(s) == IF Tag(<<SEMI>>, s).ok THEN Tag(<<SEMI>>, s) ELSE Ok(s, <<>>)

\* mutant: any one byte is taken as the trailer
TrailerAnyByte(s) == Take(1, s)

\* tag(";")
Trailer(s) == Tag(<<SEMI>>, s)

\* terminated(.., tag(";")) after the blocks, then the closure building Gif
TrailerStep ==
    /\ pc = "trailer"
    /\ \E r \in {Trailer(i)} :
           result' = IF r.ok
                     THEN Ok(r.rest, [header |-> header[1], blocks |-> blocks])
                     ELSE r
    /\ pc' = "done"
    /\ UNCHANGED <<input, size, header, i, blocks, snt, body, after, head,
                   sub_i, subs, blockRes>>

----------------------------------------------------------------------------
(* The pure entry points, each applied in one step. *)

VersionStep ==
    /\ pc = "version"
    /\ result' = VersionParse(input)
    /\ pc' = "done"
    /\ UNCHANGED <<input, size, header, i, blocks, snt, body, after, head,
                   sub_i, subs, blockRes>>

ColorTableStep ==
    /\ pc = "color_table"
    /\ result' = ColorTableParse(input, size)
    /\ pc' = "done"
    /\ UNCHANGED <<input, size, header, i, blocks, snt, body, after, head,
                   sub_i, subs, blockRes>>

LsdStep ==
    /\ pc = "lsd"
    /\ result' = LogicalScreenDescriptorParse(input)
    /\ pc' = "done"
    /\ UNCHANGED <<input, size, header, i, blocks, snt, body, after, head,
                   sub_i, subs, blockRes>>

----------------------------------------------------------------------------
(* Bounds of the inputs. *)

\* chunks in the part of a Gif input that follows the header
MaxChunks == 4

\* bytes over {'a', NUL} in a block body
MaxBody == 7

\* bytes appended to a (possibly damaged) signature
MaxVersionTail == 2

\* length of the short slices given to ColorTable::parse
MaxSlice == 40

\* the size argument given to ColorTable::parse (1 .. MaxSize)
MaxSize == 3

----------------------------------------------------------------------------
(* Input slices. *)

SeqsUpTo(S, n) == UNION {[1..k -> S] : k \in 0..n}

RECURSIVE Flatten(_)
Flatten(ss) == IF ss = <<>> THEN <<>> ELSE Head(ss) \o Flatten(Tail(ss))

\* n bytes, none of them NUL or a delimiter
Filler(n) == [k \in 1..n |-> 64 + (k % 32)]

\* x = 1, y = 2, width = 259, height = 4, no local color table
DescPlain == <<1, 0, 2, 0, 3, 1, 4, 0, 0>>

\* the same with bit 7 of the flag byte set, low three bits 0
DescTable == <<1, 0, 2, 0, 3, 1, 4, 0, 128>>

\* width = 10, height = 259, flag byte, background color, aspect ratio
Lsd(flag) == <<10, 0, 3, 1, flag, 5, 6>>

ExtChunk == <<BANG, 98, 97, NUL>>

ImgChunk == <<COMMA>> \o DescPlain \o <<8, 97, NUL>>

ChunkSet == {<<COMMA>>, <<BANG>>, <<SEMI>>, <<97>>, <<NUL>>, ExtChunk, ImgChunk}

Tails == {Flatten(cs) : cs \in SeqsUpTo(ChunkSet, MaxChunks)}

FewTails == {<<>>, <<SEMI>>, ExtChunk \o <<SEMI>>, ImgChunk \o ExtChunk \o <<SEMI, 97>>}

OtherHeaders ==
    { <<>>, Prefix(GIF89a, 4), GIF87a, GIF89a \o Prefix(Lsd(7), 5),
      <<71, 73, 70, 56, 56, 97>> \o Lsd(7),
      GIF87a \o Lsd(128) \o Filler(TableCount),
      GIF87a \o Lsd(128) \o Filler(TableCount - 9),
      GIF89a \o Lsd(129) }

GifInputs ==
    {GIF89a \o Lsd(7) \o t : t \in Tails}
    \cup {h \o t : h \in OtherHeaders, t \in FewTails}

SentRuns ==
    { <<>>, <<97>>, <<SEMI>>, <<COMMA>>, <<BANG>>, <<COMMA, COMMA>>,
      <<COMMA, BANG>>, <<BANG, COMMA>>, <<BANG, BANG>>, <<BANG, SEMI>> }

Ends == {<<>>, <<SEMI>>, <<COMMA, 97>>}

Bodies ==
    {p \o b : p \in {<<>>, DescPlain \o <<8>>}, b \in SeqsUpTo({97, NUL}, MaxBody)}

TableBodies ==
    {DescTable \o Filler(n) \o <<8, 97, NUL>> : n \in {0, 240, 247, 256}}

BlockInputs ==
    {s \o b \o e : s \in SentRuns, b \in Bodies, e \in Ends}
    \cup {<<COMMA>> \o b \o e : b \in TableBodies, e \in Ends}

Substituted(s, p, b) == [k \in 1..Len(s) |-> IF k = p THEN b ELSE s[k]]

VersionInputs ==
    LET sigs  == {Substituted(g, p, b) :
                    g \in {GIF87a, GIF89a}, p \in 0..6, b \in {55, 56, 57, 71, 103}}
        tails == SeqsUpTo({55, 97}, MaxVersionTail)
    IN  {Prefix(g, n) : g \in sigs, n \in 0..5}
        \cup {g \o t : g \in sigs, t \in tails}

ColorTableInputs ==
    {Filler(n) : n \in (0..MaxSlice) \cup {255, 256, 257, 511, 512, 513, 768}}

LsdInputs ==
    {Lsd(f) \o Filler(n) : f \in 0..255, n \in {0, 6, 256, 300}}

----------------------------------------------------------------------------
(* Specifications: one per entry point. *)

InitWith(p, in, sz) ==
    /\ input = in
    /\ size = sz
    /\ pc = p
    /\ header = None
    /\ i = IF p = "block" THEN in ELSE <<>>
    /\ blocks = <<>>
    /\ snt = <<>>
    /\ body = <<>>
    /\ after = <<>>
    /\ head = NoHead
    /\ sub_i = <<>>
    /\ subs = <<>>
    /\ blockRes = NoResult
    /\ result = NoResult

\* before the call: main has not handed the bytes to Gif::parse yet
Init == InitWith("idle", <<>>, 0)

\* Gif::parse(input), called with the bytes of a file
GifCall ==
    /\ pc = "idle"
    /\ \E in \in GifInputs : input' = in
    /\ pc' = "header"
    /\ UNCHANGED <<size, header, i, blocks, snt, body, after, head, sub_i, subs,
                   blockRes, result>>

Next ==
    \/ GifCall
    \/ HeaderStep
    \/ BlockSplit
    \/ InnerHead
    \/ SubBlockStep
    \/ Many1Block
    \/ TrailerStep

Spec == Init /\ [][Next]_vars

\* the parse is a straight-line, single-threaded computation: it always
\* takes its next step
FairSpec == Spec /\ WF_vars(Next)

\* Block::parse(input), as the tests call it
InitBlock == \E in \in BlockInputs : InitWith("block", in, 0)

NextBlock ==
    \/ BlockSplit
    \/ InnerHead
    \/ SubBlockStep

SpecBlock == InitBlock /\ [][NextBlock]_vars

\* Version::parse(input)
InitVersion == \E in \in VersionInputs : InitWith("version", in, 0)

SpecVersion == InitVersion /\ [][VersionStep]_vars

\* ColorTable::parse(input, size)
InitColorTable ==
    \E in \in ColorTableInputs, sz \in 1..MaxSize : InitWith("color_table", in, sz)

SpecColorTable == InitColorTable /\ [][ColorTableStep]_vars

\* LogicalScreenDescriptor::parse(input)
InitLsd == \E in \in LsdInputs : InitWith("lsd", in, 0)

SpecLsd == InitLsd /\ [][LsdStep]_vars

----------------------------------------------------------------------------
(* Version::parse (C7) *)

KnownSignature(s) == Len(s) >= 6 /\ Prefix(s, 6) \in {GIF87a, GIF89a}

\* C7: Version::parse succeeds exactly when the first 6 bytes are "GIF87a"
\* or "GIF89a"; it then yields the matching variant and the input without
\* those 6 bytes; every other input (truncated ones included) yields an
\* error value, never a panic.
VersionParseExact ==
    pc = "done" =>
        /\ result.kind # "panic"
        /\ result.ok <=> KnownSignature(input)
        /\ result.ok =>
            /\ result.rest = Drop(input, 6)
            /\ result.out = IF Prefix(input, 6) = GIF87a THEN "Gif87a" ELSE "Gif89a"

VersionParsed89 ==
    /\ pc = "done"
    /\ result.ok
    /\ result.out = "Gif89a"
    /\ Len(result.rest) = MaxVersionTail

----------------------------------------------------------------------------
(* Gif::parse (C1, C8, C9) *)

IsSuffix(t, s) == Len(t) <= Len(s) /\ t = Drop(s, Len(s) - Len(t))

\* C1: Gif::parse returns a Gif only if at least one block was decoded and
\* the byte right after the last decoded block is ';', which is consumed
\* (the returned remainder begins right after it); when the header parsed
\* and the input is exhausted or holds another byte there, or no block was
\* decoded, it returns an error.
GifNeedsBlockAndTrailer ==
    pc = "done" =>
        /\ result.ok =>
            /\ Len(blocks) >= 1
            /\ result.out.blocks = blocks
            /\ IsSuffix(i, input)
            /\ i # <<>> /\ i[1] = SEMI
            /\ result.rest = Tail(i)
        /\ (header # None /\ (blocks = <<>> \/ i = <<>> \/ i[1] # SEMI)) => ~result.ok

GifReturned ==
    /\ pc = "done"
    /\ result.ok
    /\ Len(blocks) = 2
    /\ result.rest # <<>>

\* C9: when Block::parse fails on a slice that begins with ',' or '!',
\* Gif::parse returns an error, also when blocks were decoded before it.
NoPartialResult ==
    (/\ pc \in {"trailer", "done"}
     /\ header # None
     /\ ~blockRes.ok
     /\ i # <<>> /\ i[1] \in Sentinels)
    => ~result.ok

LaterBlockFailed ==
    /\ pc = "done"
    /\ Len(blocks) >= 1
    /\ ~blockRes.ok
    /\ i # <<>> /\ i[1] \in Sentinels
    /\ result.kind = "Tag"

\* C8: every iteration of the sub-block repetition and of the block
\* repetition that goes on to a next iteration has consumed at least one
\* byte, and every parse ends with a returned Gif or a returned error.
IterationConsumes ==
    /\ (pc = "sub" /\ pc' = "sub") => Len(sub_i') < Len(sub_i)
    /\ (pc = "block_ret" /\ pc' = "block") => Len(i') < Len(i)

ParseTerminates ==
    /\ [][IterationConsumes]_vars
    /\ <>(pc = "done" /\ result.kind # "none")

TwoIterationsEach ==
    /\ pc = "done"
    /\ Len(blocks) = 2
    /\ \E k \in 1..2 : blocks[k].kind = "Extension" /\ Len(blocks[k].data) >= 2

----------------------------------------------------------------------------
(* Block::parse (C4, C5, C6, C10) *)

\* a chain r1 NUL r2 NUL ... rk NUL of k >= 1 non-empty runs that hold no
\* NUL and no delimiter
IsChain(s) ==
    /\ s # <<>>
    /\ s[1] # NUL
    /\ s[Len(s)] = NUL
    /\ \A k \in 1..Len(s) : s[k] \notin Delimiters
    /\ \A k \in 1..(Len(s) - 1) : ~(s[k] = NUL /\ s[k + 1] = NUL)

NulAt(s, j) ==
    LET nuls == {k \in 1..Len(s) : s[k] = NUL}
    IN  IF j = 0 THEN 0
        ELSE CHOOSE k \in nuls : Cardinality({m \in nuls : m <= k}) = j

\* the sub-blocks [r1, ..., rk] of the chain s
ChainSubBlocks(s) ==
    [j \in 1..Cardinality({k \in 1..Len(s) : s[k] = NUL}) |->
        [data |-> SubSeq(s, NulAt(s, j - 1) + 1, NulAt(s, j) - 1)]]

ExtensionOf(chain) ==
    [kind |-> "Extension", ext_type |-> "Unknown", data |-> ChainSubBlocks(chain)]

\* C6 as claimed: Block::parse of '!' + any one label byte + a chain yields
\* the Extension (Unknown) holding exactly the runs of the chain, in order,
\* with the nulls dropped and nothing left over.
ExtensionChainAnyLabel ==
    (/\ pc = "block_ret"
     /\ Len(input) >= 2
     /\ input[1] = BANG
     /\ IsChain(Drop(input, 2)))
    => /\ blockRes.ok
       /\ blockRes.out = ExtensionOf(Drop(input, 2))
       /\ blockRes.rest = <<>>
       /\ subs = ChainSubBlocks(Drop(input, 2))
       /\ sub_i = <<>>

\* C6 as amended: the same for every label byte other than ',', '!', ';'.
ExtensionChainDecoded ==
    (/\ pc = "block_ret"
     /\ Len(input) >= 2
     /\ input[1] = BANG
     /\ input[2] \notin Delimiters
     /\ IsChain(Drop(input, 2)))
    => /\ blockRes.ok
       /\ blockRes.out = ExtensionOf(Drop(input, 2))
       /\ blockRes.rest = <<>>
       /\ subs = ChainSubBlocks(Drop(input, 2))
       /\ sub_i = <<>>

TwoRunChainDecoded ==
    /\ pc = "block_ret"
    /\ Len(input) >= 2
    /\ input[1] = BANG
    /\ input[2] = NUL
    /\ IsChain(Drop(input, 2))
    /\ blockRes.ok
    /\ Len(blockRes.out.data) = 2
    /\ Len(blockRes.out.data[1].data) < Len(blockRes.out.data[2].data)

\* C5: Block::parse fails on every input whose first byte is neither ','
\* nor '!'; on every input it accepts, the sentinel is the single first
\* byte, the body begins at the second byte, and the first byte selects
\* the variant.
OneSentinelByte ==
    pc = "block_ret" =>
        /\ (input = <<>> \/ input[1] \notin Sentinels) => ~blockRes.ok
        /\ blockRes.ok =>
            /\ snt = <<input[1]>>
            /\ body = SubSeq(input, 2, 1 + Len(body))
            /\ blockRes.out.kind = IF input[1] = COMMA THEN "Image" ELSE "Extension"

\* the first position after the leading byte that holds a delimiter
\* (Len(s) + 1 when there is none)
NextDelimiter(s) ==
    LET at == {k \in 2..Len(s) : s[k] \in Delimiters}
    IN  IF at = {} THEN Len(s) + 1 ELSE CHOOSE k \in at : \A j \in at : k <= j

\* C10: after a successful Block::parse the remainder is the suffix of the
\* input at the first ',', '!' or ';' that follows the leading sentinel
\* (empty when there is none), whatever part of the body the inner decoder
\* consumed; the body holds no ',', '!' or ';'.
RemainderAtNextDelimiter ==
    (pc = "block_ret" /\ blockRes.ok) =>
        /\ blockRes.rest = Drop(input, NextDelimiter(input) - 1)
        /\ \A k \in 1..Len(body) : body[k] \notin Delimiters
        /\ IsSuffix(sub_i, body)

\* the bytes of a color table, entry after entry
TableBytes(colors) ==
    LET sz == IF colors = <<>> THEN 0 ELSE Len(colors[1])
    IN  [k \in 1..(Len(colors) * sz) |-> colors[((k - 1) \div sz) + 1][((k - 1) % sz) + 1]]

\* C4: a local color table is decoded from the bytes that follow the 9
\* fixed bytes of the image descriptor, and the descriptor's remainder (the
\* bit-width byte and what follows) begins after those 9 bytes plus the
\* table.
LocalTableAfterFixedFields ==
    (/\ pc = "sub"
     /\ subs = <<>>
     /\ head.kind = "Image"
     /\ head.image_descriptor.local_color_table # None)
    => LET bytes == TableBytes(head.image_descriptor.local_color_table[1].colors)
       IN  /\ Len(body) >= 9 + Len(bytes)
           /\ bytes = SubSeq(body, 10, 9 + Len(bytes))
           /\ <<head.byte>> \o sub_i = Drop(body, 9 + Len(bytes))

----------------------------------------------------------------------------
(* ColorTable::parse and the flag byte (C2, C3) *)

\* C3: ColorTable::parse(slice, N) succeeds exactly when the slice holds
\* 3*N bytes or more; the table then holds N entries of 3 bytes each and
\* the remainder is the slice without its first 3*N bytes.
ColorTableReadsTriples ==
    pc = "done" =>
        /\ result.ok <=> Len(input) >= 3 * size
        /\ result.ok =>
            /\ Len(result.out.colors) = size
            /\ \A k \in 1..Len(result.out.colors) : Len(result.out.colors[k]) = 3
            /\ result.rest = Drop(input, 3 * size)

\* C2: the flag byte says "present" exactly when bit 7 is set; the entry
\* count is then 2^((flag & 7) + 1); with bit 7 clear there is no table
\* and the descriptor consumes its 7 fixed bytes only.
FlagByteExponential ==
    pc = "done" =>
        LET flag == input[5]
        IN  /\ (color_table_spec(flag) # None) <=> (Bit7(flag) = 1)
            /\ Bit7(flag) = 1 => color_table_spec(flag) = Some(2 ^ (Low3(flag) + 1))
            /\ (Bit7(flag) = 1 /\ result.ok) =>
                   Len(result.out.global_color_table[1].colors) = 2 ^ (Low3(flag) + 1)
            /\ Bit7(flag) = 0 =>
                /\ result.ok
                /\ result.out.global_color_table = None
                /\ result.rest = Drop(input, 7)

====
